---- MODULE Spec2Model ----
(***************************************************************************)
(* Gaze tracking and blink classification of src/components/EyeTracker.tsx *)
(* (the single-blink tracker), with the double-blink tracker variant of    *)
(* src/unnamed/part_001 and the page's eye-to-click hook of                *)
(* src/unnamed/part_000 where a definition says so.                        *)
(*                                                                         *)
(* Units.  Time is in milliseconds.  Landmark coordinates are in 1/1000 of *)
(* the video frame (the detector's normalised [0,1] range is 0..1000).     *)
(* Screen positions are in 1/10 of a pixel, EAR values in 1/1000.  The     *)
(* source computes in floating point; here every division and square root  *)
(* truncates at that resolution.                                           *)
(***************************************************************************)
EXTENDS Integers, Sequences, FiniteSets, TLC

VARIABLES
    now,              \* the wall clock, Date.now()
    phase,            \* "boot" before init() has finished, "loop" after
    running,          \* running
    calibStart,       \* calibStart (a performance.now() reading)
    lastVideoTs,      \* lastVideoTs
    earSamples,       \* earSamples
    earBaseline,      \* earBaseline (0 = not established)
    eyeClosed,        \* eyeClosed
    closedAt,         \* closedAt
    lastClickAt,      \* lastClickAt
    clickFreezeUntil, \* clickFreezeUntil
    smooth,           \* smoothX, smoothY
    posBuf,           \* posBuf
    calibrated,       \* calibrated
    affineParams,     \* affineParams (Null or the six coefficients)
    collecting,       \* collecting
    calIndex,         \* calIndex
    samplesForCurrent,\* samplesForCurrent
    win,              \* window.innerWidth, window.innerHeight (pixels)
    lastMove,         \* detail of the last "eye-move" event dispatched
    clicks,           \* the DOM click events dispatched so far, in order
    preClose,         \* what was reported and buffered when the eye closed
    lastAccept,       \* time and reported position of the last accepted blink,
                      \* kept until a face frame at or after its freeze deadline
    ev,               \* what the last frame did
    rafPending,       \* a requestAnimationFrame(loop) callback is outstanding
    overlay,          \* overlayEl, infoEl and dotEl are set (TRUE) or null
    calPc,            \* where runCalibration() stands
    calWake,          \* when the setTimeout it is awaiting fires
    calFit,           \* its locals inputs, outX, outY once collected
    calOutcome,       \* which branch of lines 313-326 it took
    user,             \* what the person in front of the camera is doing
    abortedAt,        \* where runCalibration() stood when the cleanup ran
    resizes,          \* how often the window has been resized
    tracksLive,       \* the camera stream has been obtained and not stopped
    landmarkerOpen,   \* the landmarker has been created and not closed
    blinkTimes,       \* blinkTimes of the double-blink tracker
    reopenLog,        \* the times of its Closed->Open transitions so far
    me,               \* which mounted EyeTracker the tracker variables belong to
    peer,             \* the tracker variables of the other mounted EyeTracker
    eyelids,          \* the eyelids in front of the camera: "open" or "shut"
    blinks,           \* how often they have shut
    handlerStack,     \* the page hook's handlers that are running, innermost last
    activations,      \* the activations it triggered for the notification in hand
    lastPos,          \* its lastPos.current (pixels)
    target,           \* what document.elementFromPoint finds for it
    listening         \* its listeners are registered on the window

vars == <<now, phase, running, calibStart, lastVideoTs, earSamples, earBaseline,
          eyeClosed, closedAt, lastClickAt, clickFreezeUntil, smooth, posBuf,
          calibrated, affineParams, collecting, calIndex, samplesForCurrent,
          win, lastMove, clicks, preClose, lastAccept, ev, rafPending, overlay,
          calPc, calWake, calFit, calOutcome, user, abortedAt, resizes,
          tracksLive, landmarkerOpen, blinkTimes, reopenLog, me, peer, eyelids,
          blinks, handlerStack, activations, lastPos, target, listening>>

\* the state of the calibration routine
calVars == <<calPc, calWake, calFit, calOutcome>>

\* what the effect's init() acquires and its cleanup releases
resVars == <<tracksLive, landmarkerOpen>>

\* the state of the double-blink tracker that the single-blink tracker lacks
dblVars == <<blinkTimes, reopenLog>>

\* the second mounted tracker and the eye both are looking at
twinVars == <<me, peer, eyelids, blinks>>

\* the state of the page's eye-to-click hook
pageVars == <<handlerStack, activations, lastPos, target, listening>>

\* everything outside one mounted single-blink tracker
elsewhere == <<dblVars, twinVars, pageVars>>

----------------------------------------------------------------------------
\* Program constants

MIN_BLINK_MS == 60
MAX_BLINK_MS == 400
CLICK_COOLDOWN_MS == 600
CLICK_FREEZE_MS == 280
CALIBRATE_MS == 2000
POS_BUF_SIZE == 11
SENSITIVITY == 2200
STABLE_MAD_PX == 7
CLICK_MAD_PX == 12
EAR_FALLBACK == 220
CAL_START_DELAY_MS == 900
DWELL_MS == 900
PAUSE_MS == 250
COMPUTE_DELAY_MS == 300
SUCCESS_DELAY_MS == 600
FAIL_DELAY_MS == 900
MIN_CAL_SAMPLES == 3
MIN_CAL_POINTS == 5
DET_EPS == 1000   \* 1e-9, the determinant being of degree 4 in the coordinates

LEFT_EYE_IDX == <<33, 160, 158, 133, 153, 144>>
LEFT_IRIS_IDX == <<468, 469, 470, 471>>
RIGHT_IRIS_IDX == <<473, 474, 475, 476>>
LEFT_EYE_SOCKET == [left |-> 33, right |-> 133, top |-> 159, bottom |-> 145]

\* n pixels in position units
Px(n) == n * 10

\* null, comparable with the records and tuples it stands in for
Null == [null |-> TRUE]
Infinity == 2 ^ 30

----------------------------------------------------------------------------
\* Bounds of the model

Epoch == 1000        \* Date.now() when the page's time origin was taken
MaxTime == 3700      \* frames are processed up to Epoch + MaxTime
MaxSamples == 2      \* face frames processed during the EAR warm-up
MaxTs == 6           \* largest timestamp passed to detectForVideo
MaxResizes == 2      \* resizes of the window
MaxTimeCal == 13500  \* horizon of the sessions that run the calibration
MaxFeeds == 12       \* frames fed to the stabiliser of a calibrated session
MaxTsEnv == 4        \* largest timestamp in the sessions with resizes and failures
MaxBlinks == 2       \* how often the person blinks when two trackers are mounted
MaxTsTwin == 4       \* largest timestamp of either tracker when two are mounted
MaxTsInit == 3       \* largest timestamp in the sessions with a stepwise init()
MaxDepth == 4        \* how many nested listener calls the call stack holds
MaxTimeDbl == 3500   \* length of a session of the double-blink tracker
MaxTsDbl == 8        \* largest timestamp in such a session
MaxTsCool == 5       \* largest timestamp in the sessions around the cooldown

----------------------------------------------------------------------------
\* Arithmetic helpers

RECURSIVE SqrtSearch(_, _, _)
SqrtSearch(n, lo, hi) ==
    IF lo >= hi THEN lo
    ELSE LET mid == (lo + hi + 1) \div 2
         IN  IF mid * mid <= n THEN SqrtSearch(n, mid, hi)
             ELSE SqrtSearch(n, lo, mid - 1)

\* floor of the square root
ISqrt(n) == SqrtSearch(n, 0, IF n < 40000 THEN n ELSE 40000)

Abs(v) == IF v < 0 THEN -v ELSE v

Max2(a, b) == IF a >= b THEN a ELSE b

\* Math.hypot
Hypot(dx, dy) ==
    IF dy = 0 THEN Abs(dx) ELSE IF dx = 0 THEN Abs(dy) ELSE ISqrt(dx * dx + dy * dy)

RECURSIVE Insert(_, _)
Insert(s, v) ==
    IF s = <<>> THEN <<v>>
    ELSE IF v <= Head(s) THEN <<v>> \o s
    ELSE <<Head(s)>> \o Insert(Tail(s), v)

RECURSIVE SortAsc(_)
\* arr.sort((a, b) => a - b)
SortAsc(s) == IF s = <<>> THEN <<>> ELSE Insert(SortAsc(Tail(s)), Head(s))

MapSeq(s, Op(_)) == [i \in 1..Len(s) |-> Op(s[i])]

RECURSIVE SumSeq(_)
SumSeq(s) == IF s = <<>> THEN 0 ELSE Head(s) + SumSeq(Tail(s))

\* mutant: Math.floor in the place of Math.round
RoundPx_floor(v) == v \div 10

\* Math.round on a position: the nearest pixel, halves upwards
RoundPx(v) == (v + 5) \div 10

----------------------------------------------------------------------------
\* Helpers of the tracker

Pt(x, y) == [x |-> x, y |-> y]

safeGet(arr, idx) == IF idx \in DOMAIN arr THEN arr[idx] ELSE Pt(500, 500)

center(points) ==
    Pt(SumSeq(MapSeq(points, LAMBDA p : p.x)) \div Len(points),
       SumSeq(MapSeq(points, LAMBDA p : p.y)) \div Len(points))

dist(a, b) == Hypot(a.x - b.x, a.y - b.y)

\* (A + B) / (2 * C) with C || 1e-6, in 1/1000
eyeAspectRatio(eye) ==
    LET A == dist(eye[2], eye[6])
        B == dist(eye[3], eye[5])
        C == dist(eye[1], eye[4])
    IN  IF C = 0 THEN (A + B) * 500000 ELSE ((A + B) * 1000) \div (2 * C)

\* mutant: nothing is clamped
clamp_off(v, min, max) == v

clamp(v, min, max) == IF v < min THEN min ELSE IF v > max THEN max ELSE v

median(arr) ==
    IF Len(arr) = 0 THEN 0
    ELSE LET s == SortAsc(arr)
             m == Len(s) \div 2
         IN  IF Len(s) % 2 = 1 THEN s[m + 1] ELSE (s[m] + s[m + 1]) \div 2

madPx(buf) ==
    IF Len(buf) = 0 THEN Infinity
    ELSE LET medX == median(MapSeq(buf, LAMBDA p : p.x))
             medY == median(MapSeq(buf, LAMBDA p : p.y))
         IN  median(MapSeq(buf, LAMBDA p : Hypot(p.x - medX, p.y - medY)))

getMedianFromBuffer(buf) ==
    IF Len(buf) = 0 THEN Null
    ELSE Pt(median(MapSeq(buf, LAMBDA p : p.x)), median(MapSeq(buf, LAMBDA p : p.y)))

\* mutant: at capacity the new entry is the one dropped
pushBuf_dropNewest(buf, c) ==
    IF Len(buf) >= POS_BUF_SIZE THEN buf ELSE Append(buf, c)

\* posBuf.push(c); if (posBuf.length > POS_BUF_SIZE) posBuf.shift()
pushBuf(buf, c) ==
    LET b == Append(buf, c)
    IN  IF Len(b) > POS_BUF_SIZE THEN Tail(b) ELSE b

\* v * num / den, truncated towards zero
Scale(v, num, den) == IF v < 0 THEN -((-v * num) \div den) ELSE (v * num) \div den

----------------------------------------------------------------------------
\* The timestamp passed to detectForVideo

\* mutant: an equal reading is let through
bumpTs_strict(reading, last) == IF reading < last THEN last + 1 ELSE reading

bumpTs(reading, last) == IF reading <= last THEN last + 1 ELSE reading

----------------------------------------------------------------------------
\* EAR baseline

perfNow(t) == t - Epoch

\* mutant: the warm-up takes one more millisecond
warmingUp_inclusive(pnow, start) == pnow - start <= CALIBRATE_MS

warmingUp(pnow, start) == pnow - start < CALIBRATE_MS

\* mutant: a median of 0 is taken as the baseline
baselineOf_noFallback(sorted) == sorted[Len(sorted) \div 2 + 1]

\* earSamples[Math.floor(earSamples.length / 2)] || 0.22, on the sorted samples
baselineOf(sorted) ==
    LET v == sorted[Len(sorted) \div 2 + 1]
    IN  IF v = 0 THEN EAR_FALLBACK ELSE v

\* mutant: without a baseline the threshold comes from the fallback baseline
belowThreshold_default(ear, base) ==
    ear < ((IF base = 0 THEN EAR_FALLBACK ELSE base) * 65 + 99) \div 100

\* BLINK_THRESHOLD && ear < BLINK_THRESHOLD, with BLINK_THRESHOLD = earBaseline * 0.65
belowThreshold(ear, base) == base # 0 /\ ear < (base * 65 + 99) \div 100

\* BLINK_THRESHOLD && ear >= BLINK_THRESHOLD
atThreshold(ear, base) == base # 0 /\ ear >= (base * 65 + 99) \div 100

----------------------------------------------------------------------------
\* Blink classification

\* mutant: no lower bound on the closure
isBlinkDuration_noMin(closedDur) == closedDur <= MAX_BLINK_MS

isBlinkDuration(closedDur) == closedDur >= MIN_BLINK_MS /\ closedDur <= MAX_BLINK_MS

cooldownPassed(sinceLastClick) == sinceLastClick > CLICK_COOLDOWN_MS

\* mutant: the threshold taken in the wrong unit
stableBeforeClick_loose(buf) == madPx(buf) <= Px(CLICK_MAD_PX) * 10

stableBeforeClick(buf) == madPx(buf) <= Px(CLICK_MAD_PX)

freezeDeadline(t) == t + CLICK_FREEZE_MS

\* mutant: the buffer is kept
bufAfterClick_kept(buf) == buf

bufAfterClick(buf) == <<>>

\* document.elementFromPoint: null outside the viewport
elementFromPoint(x, y, w) ==
    IF x >= 0 /\ y >= 0 /\ x < w.w /\ y < w.h THEN [el |-> Pt(x, y)] ELSE Null

\* el?.click() and el?.dispatchEvent(new MouseEvent("click")): the click events
\* the element receives, each marked with the tracker that dispatched it and
\* with the number of the blink it answers
dispatchClick(t, x, y, w) ==
    IF elementFromPoint(x, y, w) = Null THEN <<>>
    ELSE << [t |-> t, x |-> x, y |-> y, by |-> "click", src |-> me, blink |-> blinks],
            [t |-> t, x |-> x, y |-> y, by |-> "dispatchEvent", src |-> me,
             blink |-> blinks] >>

\* mutant: the early return is missing
frozenByBlink_never(closed) == FALSE

\* if (eyeClosed) { re-dispatch; return }
frozenByBlink(closed) == closed

----------------------------------------------------------------------------
\* Gaze mapping and stabilisation

\* ax * u + bx * v + cx and ay * u + by * v + cy, clamped to the window; each
\* coefficient is p.num[k] / p.det
applyAffine(p, iris, w) ==
    Pt(clamp((p.num[1] * iris.x + p.num[2] * iris.y + p.num[3]) \div p.det, 0, Px(w.w)),
       clamp((p.num[4] * iris.x + p.num[5] * iris.y + p.num[6]) \div p.det, 0, Px(w.h)))

fallbackCandidate(face, leftCenter, sm, w) ==
    LET socketCenter ==
            Pt((safeGet(face, LEFT_EYE_SOCKET.left).x + safeGet(face, LEFT_EYE_SOCKET.right).x) \div 2,
               (safeGet(face, LEFT_EYE_SOCKET.top).y + safeGet(face, LEFT_EYE_SOCKET.bottom).y) \div 2)
        dx == leftCenter.x - socketCenter.x
        dy == leftCenter.y - socketCenter.y
    IN  Pt(clamp(sm.x + Scale(dx, Px(SENSITIVITY), 1000), 0, Px(w.w)),
           clamp(sm.y + Scale(dy, Px(SENSITIVITY), 1000), 0, Px(w.h)))

maxJumpPx(w) == (Px(Max2(w.w, w.h)) * 15) \div 100

\* mutant: the median position is taken as it is
mappedPos_unclamped(med, sm, w) == med

\* the median position, moved at most maxJumpPx from the smoothed position
mappedPos(med, sm, w) ==
    LET delta == Hypot(med.x - sm.x, med.y - sm.y)
    IN  IF delta > maxJumpPx(w)
        THEN Pt(sm.x + Scale(med.x - sm.x, maxJumpPx(w), delta),
                sm.y + Scale(med.y - sm.y, maxJumpPx(w), delta))
        ELSE med

\* mutant: the comparison is the wrong way round
inClickFreeze_reversed(t, until) == t > until

inClickFreeze(t, until) == t < until

smoothing(calib) == IF calib THEN 22 ELSE 12

\* mutant: a stable buffer is smoothed like any other
stabilise_noSnap(sm, buf, cand, t, until, calib, w) ==
    LET m == getMedianFromBuffer(buf)
        mapped == mappedPos(IF m = Null THEN cand ELSE m, sm, w)
    IN  IF inClickFreeze(t, until) THEN sm
        ELSE Pt(sm.x + Scale(mapped.x - sm.x, smoothing(calib), 100),
                sm.y + Scale(mapped.y - sm.y, smoothing(calib), 100))

\* the smoothed position after the frame, buf being the buffer after the push
stabilise(sm, buf, cand, t, until, calib, w) ==
    LET m == getMedianFromBuffer(buf)
        medianPos == IF m = Null THEN cand ELSE m
        SNAP_LOCK == madPx(buf) <= Px(STABLE_MAD_PX)
        mapped == mappedPos(medianPos, sm, w)
    IN  IF inClickFreeze(t, until) THEN sm
        ELSE IF SNAP_LOCK THEN mapped
        ELSE Pt(sm.x + Scale(mapped.x - sm.x, smoothing(calib), 100),
                sm.y + Scale(mapped.y - sm.y, smoothing(calib), 100))

----------------------------------------------------------------------------
\* Calibration: the grid, the summary of the samples and the affine solve

\* the grid, in tenths of the window; CAL_POINTS[i + 1] is point i of the source
CAL_POINTS ==
    << [x |-> 1, y |-> 1], [x |-> 5, y |-> 1], [x |-> 9, y |-> 1],
       [x |-> 1, y |-> 5], [x |-> 5, y |-> 5], [x |-> 9, y |-> 5],
       [x |-> 1, y |-> 9], [x |-> 5, y |-> 9], [x |-> 9, y |-> 9] >>

\* CAL_POINTS[i].x * window.innerWidth, CAL_POINTS[i].y * window.innerHeight
calTarget(i, w) ==
    Pt((CAL_POINTS[i + 1].x * Px(w.w)) \div 10, (CAL_POINTS[i + 1].y * Px(w.h)) \div 10)

\* The inverse of a 3x3 matrix as its adjugate and its determinant (the source
\* multiplies the adjugate by 1 / det), null if |det| < 1e-9
invert3x3(m) ==
    LET a == m[1]
        b == m[2]
        c == m[3]
        d == m[4]
        e == m[5]
        f == m[6]
        g == m[7]
        h == m[8]
        i == m[9]
        A == e * i - f * h
        B == -(d * i - f * g)
        C == d * h - e * g
        D == -(b * i - c * h)
        E == a * i - c * g
        F == -(a * h - b * g)
        G == b * f - c * e
        H == -(a * f - c * d)
        I == a * e - b * d
        det == a * A + b * B + c * C
    IN  IF Abs(det) < DET_EPS THEN Null
        ELSE [adj |-> <<A, D, G, B, E, H, C, F, I>>, det |-> det]

\* least squares over the normal equations; the six coefficients are
\* num[k] / det
solveAffineFromSamples(inputs, outputsX, outputsY) ==
    LET n == Len(inputs)
        S(T(_)) == SumSeq([k \in 1..n |-> T(k)])
        U00 == S(LAMBDA k : inputs[k].u * inputs[k].u)
        U01 == S(LAMBDA k : inputs[k].u * inputs[k].v)
        U02 == S(LAMBDA k : inputs[k].u)
        U11 == S(LAMBDA k : inputs[k].v * inputs[k].v)
        U12 == S(LAMBDA k : inputs[k].v)
        U22 == S(LAMBDA k : 1)
        UX0 == S(LAMBDA k : inputs[k].u * outputsX[k])
        UX1 == S(LAMBDA k : inputs[k].v * outputsX[k])
        UX2 == S(LAMBDA k : outputsX[k])
        UY0 == S(LAMBDA k : inputs[k].u * outputsY[k])
        UY1 == S(LAMBDA k : inputs[k].v * outputsY[k])
        UY2 == S(LAMBDA k : outputsY[k])
        inv == invert3x3(<<U00, U01, U02, U01, U11, U12, U02, U12, U22>>)
    IN  IF n < 3 THEN Null
        ELSE IF inv = Null THEN Null
        ELSE [num |-> << inv.adj[1] * UX0 + inv.adj[2] * UX1 + inv.adj[3] * UX2,
                         inv.adj[4] * UX0 + inv.adj[5] * UX1 + inv.adj[6] * UX2,
                         inv.adj[7] * UX0 + inv.adj[8] * UX1 + inv.adj[9] * UX2,
                         inv.adj[1] * UY0 + inv.adj[2] * UY1 + inv.adj[3] * UY2,
                         inv.adj[4] * UY0 + inv.adj[5] * UY1 + inv.adj[6] * UY2,
                         inv.adj[7] * UY0 + inv.adj[8] * UY1 + inv.adj[9] * UY2 >>,
              det |-> inv.det]

\* mutant: a point with two samples is used
usablePoint_two(s) == Len(s) >= 2

\* a point enters the solve unless (!s || s.length < 3)
usablePoint(s) == Len(s) >= MIN_CAL_SAMPLES

\* inputs, outX and outY from point i on: the points with enough samples, each
\* summarised by the medians of its u and v
RECURSIVE collectInputs(_, _, _)
collectInputs(i, samples, w) ==
    IF i >= Len(CAL_POINTS) THEN [inputs |-> <<>>, outX |-> <<>>, outY |-> <<>>]
    ELSE LET rest == collectInputs(i + 1, samples, w)
             us == MapSeq(samples[i], LAMBDA z : z.u)
             vs == MapSeq(samples[i], LAMBDA z : z.v)
         IN  IF ~usablePoint(samples[i]) THEN rest
             ELSE [inputs |-> <<[u |-> median(us), v |-> median(vs)]>> \o rest.inputs,
                   outX |-> <<calTarget(i, w).x>> \o rest.outX,
                   outY |-> <<calTarget(i, w).y>> \o rest.outY]

\* mutant: three points are enough
enoughPoints_three(inputs) == Len(inputs) >= 3

\* if (inputs.length >= 5)
enoughPoints(inputs) == Len(inputs) >= MIN_CAL_POINTS

\* the coefficients runCalibration() installs, null if it installs none
fitOf(fit) ==
    IF enoughPoints(fit.inputs)
    THEN solveAffineFromSamples(fit.inputs, fit.outX, fit.outY)
    ELSE Null

----------------------------------------------------------------------------
\* What the detector can deliver

\* A face whose left eye is open by 2 * lid and whose irises are displaced by
\* (ix, iy) from the centre of the eye socket.  EAR = lid / 50.
MkFace(lid, ix, iy) ==
    (33 :> Pt(400, 500)) @@ (133 :> Pt(500, 500)) @@
    (160 :> Pt(430, 500 - lid)) @@ (144 :> Pt(430, 500 + lid)) @@
    (158 :> Pt(470, 500 - lid)) @@ (153 :> Pt(470, 500 + lid)) @@
    (159 :> Pt(450, 500 - lid)) @@ (145 :> Pt(450, 500 + lid)) @@
    [i \in {468, 469, 470, 471} |-> Pt(450 + ix, 500 + iy)] @@
    [i \in {473, 474, 475, 476} |-> Pt(550 + ix, 500 + iy)]

FaceOpen == MkFace(15, 0, 0)        \* EAR 0.30, gaze at rest
FaceOpenRight == MkFace(15, 20, 0)  \* EAR 0.30, gaze 44 px to the right
FaceShut == MkFace(5, 0, 0)         \* EAR 0.10

\* a face of which the detector delivers the irises only
FaceSparse == [i \in {468, 469, 470, 471, 473, 474, 475, 476} |-> Pt(500, 500)]

NoFace == [kind |-> "noface"]
NotReady == [kind |-> "notready"]
Throws == [kind |-> "throws"]
Seen(f) == [kind |-> "face", face |-> f]

\* A small face in the corner of the frame, its eye open (EAR 0.25), the
\* centre of its two irises at (cx, cy)
MkSmallFace(cx, cy) ==
    (33 :> Pt(0, 6)) @@ (133 :> Pt(8, 6)) @@
    (160 :> Pt(2, 5)) @@ (144 :> Pt(2, 7)) @@
    (158 :> Pt(6, 5)) @@ (153 :> Pt(6, 7)) @@
    (159 :> Pt(4, 5)) @@ (145 :> Pt(4, 7)) @@
    [i \in {468, 469, 470, 471} |-> Pt(cx - 2, cy)] @@
    [i \in {473, 474, 475, 476} |-> Pt(cx + 2, cy)]

\* The face of someone looking at grid point i: the irises move by 0.004 of
\* the frame from one grid column or row to the next, or not at all if the
\* eyes do not follow the dots
FaceAtDot(i, follows) ==
    IF follows
    THEN MkSmallFace(1 + CAL_POINTS[i + 1].x, 1 + CAL_POINTS[i + 1].y)
    ELSE MkSmallFace(6, 6)

\* the same face with the lids of the left eye shut (EAR 0)
Shut(face) ==
    [face EXCEPT ![160] = Pt(2, 6), ![144] = Pt(2, 6),
                 ![158] = Pt(6, 6), ![153] = Pt(6, 6)]

\* how long someone who is late takes to turn to a dot
LateMs == 500

\* how long the eyes of someone who blinks at a new dot stay shut
BlinkMs == 300

\* what the detector sees at time t of someone behaving as u
Watching(u, i, t) ==
    IF u.mode = "late" /\ t - u.since < LateMs THEN NoFace
    ELSE IF u.mode = "blink" /\ t - u.since < BlinkMs
    THEN Seen(Shut(FaceAtDot(i, u.follows)))
    ELSE Seen(FaceAtDot(i, u.follows))

UserModes == {"dot", "late"}

\* the dots at whose appearance the person may blink
BlinkDots == {1}

\* how the person may react to dot i
modesAt(i) == IF i \in BlinkDots THEN UserModes \cup {"blink"} ELSE UserModes

Screens == {[w |-> 200, h |-> 100]}

Dts == {30, 150, 500, 2000}
DtsCal == {200}
DetsEnv == {NotReady, Throws, NoFace, Seen(FaceSparse), Seen(FaceOpen),
            Seen(FaceOpenRight), Seen(FaceShut)}
Sizes == Screens \cup {[w |-> 80, h |-> 100]}

\* where someone looks after the calibration: at the left or at the right
\* edge of the window, half way down
Gazes == {MkSmallFace(1, 6), MkSmallFace(11, 6)}
BootDelays == {500}
Dets == {NoFace, Seen(FaceOpen), Seen(FaceOpenRight), Seen(FaceShut)}
Readings == {0, 2, 5}

----------------------------------------------------------------------------
\* The frame loop

\* The Open/Closed classifier on one EAR value, at time t, base being the
\* baseline after this frame's baseline step
blinkStep(ear, t, base) ==
    LET closing == belowThreshold(ear, base) /\ ~eyeClosed
        closed1 == eyeClosed \/ closing
        closedAt1 == IF closing THEN t ELSE closedAt
        opening == atThreshold(ear, base) /\ closed1
        closedDur == t - closedAt1
        accept == /\ opening
                  /\ isBlinkDuration(closedDur)
                  /\ cooldownPassed(t - lastClickAt)
                  /\ stableBeforeClick(posBuf)
    IN  [ closed |-> closed1 /\ ~opening,
          closedAt |-> closedAt1,
          lastClickAt |-> IF accept THEN t ELSE lastClickAt,
          clickFreezeUntil |-> IF accept THEN freezeDeadline(t) ELSE clickFreezeUntil,
          buf |-> IF accept THEN bufAfterClick(posBuf) ELSE posBuf,
          events |-> IF accept
                     THEN dispatchClick(t, RoundPx(smooth.x), RoundPx(smooth.y), win)
                     ELSE <<>>,
          trans |-> IF closing THEN "close" ELSE IF opening THEN "reopen" ELSE "none",
          dur |-> IF opening THEN closedDur ELSE 0,
          accepted |-> accept ]

\* mutant: an exception ends the loop
reschedules_noCatch(kind) == kind \in {"notready", "closed", "open", "noface"}

\* the exits of loop() that end in requestAnimationFrame(loop): the early
\* return of a frame that is not ready, the return of a closed frame and the
\* end of the function, reached after the try block or after its catch
reschedules(kind) == kind \in {"notready", "closed", "open", "noface", "threw"}

\* mutant: the flag is not looked at
collectingNow_anyTime(coll, idx) == idx >= 0

\* if (collecting && calIndex >= 0)
collectingNow(coll, idx) == coll /\ idx >= 0

\* the loop body from the detector's result on, for a result holding a face
FaceFrame(face, t, reading) ==
    LET ear == eyeAspectRatio(MapSeq(LEFT_EYE_IDX, LAMBDA i : safeGet(face, i)))
        warm == warmingUp(perfNow(t), calibStart)
        compute == ~warm /\ earBaseline = 0 /\ Len(earSamples) > 0
        base1 == IF compute THEN baselineOf(SortAsc(earSamples)) ELSE earBaseline
        b == blinkStep(ear, t, base1)
        leftCenter == center(MapSeq(LEFT_IRIS_IDX, LAMBDA i : safeGet(face, i)))
        rightCenter == center(MapSeq(RIGHT_IRIS_IDX, LAMBDA i : safeGet(face, i)))
        irisCenter == Pt((leftCenter.x + rightCenter.x) \div 2,
                         (leftCenter.y + rightCenter.y) \div 2)
        affine == calibrated /\ affineParams # Null
        cand == IF affine
                THEN applyAffine(affineParams, irisCenter, win)
                ELSE fallbackCandidate(face, leftCenter, smooth, win)
        buf2 == pushBuf(b.buf, cand)
        sm2 == stabilise(smooth, buf2, cand, t, b.clickFreezeUntil, calibrated, win)
        frozen == frozenByBlink(b.closed)
        kind == IF frozen THEN "closed" ELSE "open"
    IN  /\ earSamples' = IF warm THEN Append(earSamples, ear)
                         ELSE IF compute THEN SortAsc(earSamples) ELSE earSamples
        /\ earBaseline' = base1
        /\ eyeClosed' = b.closed
        /\ closedAt' = b.closedAt
        /\ lastClickAt' = b.lastClickAt
        /\ clickFreezeUntil' = b.clickFreezeUntil
        /\ clicks' = clicks \o b.events
        /\ posBuf' = IF frozen THEN b.buf ELSE buf2
        /\ smooth' = IF frozen THEN smooth ELSE sm2
        /\ samplesForCurrent' =
               IF ~frozen /\ collectingNow(collecting, calIndex)
               THEN [samplesForCurrent EXCEPT
                        ![calIndex] = Append(@, [u |-> irisCenter.x, v |-> irisCenter.y])]
               ELSE samplesForCurrent
        /\ lastMove' = [x |-> smooth'.x, y |-> smooth'.y, calibrated |-> calibrated]
        /\ preClose' = IF b.trans = "close"
                       THEN [move |-> lastMove, smooth |-> smooth, buf |-> posBuf]
                       ELSE IF b.trans = "reopen" THEN Null ELSE preClose
        /\ lastAccept' = IF b.accepted
                         THEN [t |-> t, x |-> smooth.x, y |-> smooth.y]
                         ELSE IF t >= clickFreezeUntil THEN Null ELSE lastAccept
        /\ ev' = [kind |-> kind, trans |-> b.trans,
                  accepted |-> b.accepted, dur |-> b.dur, reading |-> reading,
                  moves |-> 1, cand |-> IF frozen THEN Null ELSE cand,
                  mapping |-> IF frozen THEN "none"
                              ELSE IF affine THEN "affine" ELSE "fallback"]
        /\ rafPending' = reschedules(kind)

\* a frame that leaves the tracker's state alone
IdleFrame(kind, reading) ==
    /\ ev' = [kind |-> kind, trans |-> "none", accepted |-> FALSE, dur |-> 0,
              reading |-> reading, moves |-> 0, cand |-> Null, mapping |-> "none"]
    /\ rafPending' = reschedules(kind)
    /\ UNCHANGED <<earSamples, earBaseline, eyeClosed, closedAt, lastClickAt,
                   clickFreezeUntil, smooth, posBuf, samplesForCurrent, lastMove,
                   clicks, preClose, lastAccept>>

\* loop(), called back dt after the event before it, the video clock reading
\* `reading` and the detector answering `det`
Frame(dt, reading, det) ==
    /\ running
    /\ phase = "loop"
    /\ rafPending
    /\ now' = now + dt
    /\ UNCHANGED <<phase, running, calibStart, calibrated, affineParams,
                   collecting, calIndex, win, overlay, calVars, user, abortedAt,
                   resizes, resVars, elsewhere>>
    /\ IF det.kind = "notready"
       THEN /\ IdleFrame("notready", reading)
            /\ UNCHANGED lastVideoTs
       ELSE /\ lastVideoTs' = bumpTs(reading, lastVideoTs)
            /\ IF det.kind = "noface" THEN IdleFrame("noface", reading)
               ELSE IF det.kind = "throws" THEN IdleFrame("threw", reading)
               ELSE FaceFrame(det.face, now + dt, reading)

\* loop() called back after the cleanup: if (!running) return
LoopStop ==
    /\ ~running
    /\ phase = "loop"
    /\ rafPending
    /\ rafPending' = FALSE
    /\ UNCHANGED <<now, phase, running, calibStart, lastVideoTs, earSamples,
                   earBaseline, eyeClosed, closedAt, lastClickAt, clickFreezeUntil,
                   smooth, posBuf, calibrated, affineParams, collecting, calIndex,
                   samplesForCurrent, win, lastMove, clicks, preClose, lastAccept,
                   ev, overlay, calVars, user, abortedAt, resizes, resVars,
                   elsewhere>>

\* the frame stays inside the bounds given
Bounded(dt, reading, det, maxTime, maxTs, maxSamples) ==
    /\ now + dt <= Epoch + maxTime
    /\ det.kind # "notready" => bumpTs(reading, lastVideoTs) <= maxTs
    /\ (det.kind = "face" /\ warmingUp(perfNow(now + dt), calibStart))
           => Len(earSamples) < maxSamples

\* init() from line 375 on, at time t: the warm-up starts, runCalibration()
\* runs up to its first await and the first frame callback is requested
startSession(t) ==
    /\ calibStart' = perfNow(t)
    /\ phase' = "loop"
    /\ rafPending' = TRUE
    /\ IF overlay
       THEN calPc' = "startDelay" /\ calWake' = t + CAL_START_DELAY_MS
       ELSE calPc' = "returned" /\ calWake' = calWake
    /\ UNCHANGED <<running, lastVideoTs, earSamples, earBaseline, eyeClosed, closedAt,
                   lastClickAt, clickFreezeUntil, smooth, posBuf, calibrated,
                   affineParams, collecting, calIndex, samplesForCurrent, win,
                   lastMove, clicks, preClose, lastAccept, ev, overlay, calFit,
                   calOutcome, user, abortedAt, resizes, elsewhere>>

\* init() run through without anything in between: the camera, the video and
\* the landmarker are ready after dt
InitDone(dt) ==
    /\ phase = "boot"
    /\ now' = now + dt
    /\ tracksLive' = TRUE
    /\ landmarkerOpen' = TRUE
    /\ startSession(now + dt)

\* what an await of init() leaves alone but phase and the resources
initIdle ==
    <<now, running, calibStart, lastVideoTs, earSamples, earBaseline, eyeClosed,
      closedAt, lastClickAt, clickFreezeUntil, smooth, posBuf, calibrated,
      affineParams, collecting, calIndex, samplesForCurrent, win, lastMove,
      clicks, preClose, lastAccept, ev, rafPending, overlay, calVars, user,
      abortedAt, resizes, elsewhere>>

\* lines 342-345: getUserMedia resolves and the stream is given to the video
InitCamera ==
    /\ phase = "boot"
    /\ phase' = "video"
    /\ tracksLive' = TRUE
    /\ UNCHANGED <<landmarkerOpen, initIdle>>

\* lines 347-360: the video has loaded, or 1500 ms have passed
InitVideo ==
    /\ phase = "video"
    /\ phase' = "fileset"
    /\ UNCHANGED <<resVars, initIdle>>

\* line 362: the wasm fileset is resolved
InitFileset ==
    /\ phase = "fileset"
    /\ phase' = "model"
    /\ UNCHANGED <<resVars, initIdle>>

\* lines 366-380: the landmarker is created, dt after the effect ran
InitModel(dt) ==
    /\ phase = "model"
    /\ now' = now + dt
    /\ landmarkerOpen' = TRUE
    /\ UNCHANGED tracksLive
    /\ startSession(now + dt)

\* lines 381-383: an await of init() rejects and the catch ends it
InitFails ==
    /\ phase \in {"boot", "video", "fileset", "model"}
    /\ phase' = "failed"
    /\ UNCHANGED <<resVars, initIdle>>

\* the cleanup of the effect: the component is unmounted
Cleanup ==
    /\ running
    /\ running' = FALSE
    /\ overlay' = FALSE
    /\ abortedAt' = calPc
    /\ tracksLive' = FALSE
    /\ landmarkerOpen' = FALSE
    /\ UNCHANGED <<now, phase, calibStart, lastVideoTs, earSamples, earBaseline,
                   eyeClosed, closedAt, lastClickAt, clickFreezeUntil, smooth,
                   posBuf, calibrated, affineParams, collecting, calIndex,
                   samplesForCurrent, win, lastMove, clicks, preClose, lastAccept,
                   ev, rafPending, calVars, user, resizes, elsewhere>>

\* the window is resized: nothing of the tracker listens
Resize(w) ==
    /\ w # win
    /\ resizes < MaxResizes
    /\ win' = w
    /\ resizes' = resizes + 1
    /\ UNCHANGED <<now, phase, running, calibStart, lastVideoTs, earSamples,
                   earBaseline, eyeClosed, closedAt, lastClickAt, clickFreezeUntil,
                   smooth, posBuf, calibrated, affineParams, collecting, calIndex,
                   samplesForCurrent, lastMove, clicks, preClose, lastAccept, ev,
                   rafPending, overlay, calVars, user, abortedAt, resVars,
                   elsewhere>>

\* ---- runCalibration(), one action for each stretch between two awaits ----

\* everything runCalibration() does not touch
notCalibration ==
    <<phase, running, calibStart, lastVideoTs, earSamples, earBaseline, eyeClosed,
      closedAt, lastClickAt, clickFreezeUntil, smooth, posBuf, win, lastMove,
      clicks, preClose, lastAccept, ev, rafPending, abortedAt, resizes,
      resVars, elsewhere>>

\* the frame callbacks come at the rate of the display: none is due before
\* time t
noFrameBefore(t) ==
    (running /\ rafPending) => \A dt \in DtsCal : now + dt >= t

\* the setTimeout awaited at pc fires
TimerFires(pc) ==
    /\ calPc = pc
    /\ noFrameBefore(calWake)
    /\ now' = Max2(now, calWake)
    /\ UNCHANGED notCalibration

\* infoEl or dotEl is dereferenced: a TypeError ends the routine if the overlay
\* is gone, otherwise it goes on to await a timer of ms at pc
Deref(pc, ms) ==
    IF overlay
    THEN calPc' = pc /\ calWake' = now' + ms
    ELSE calPc' = "threw" /\ calWake' = calWake

\* lines 279-288: point i is shown; the person reacts to it
ShowDot(i) ==
    /\ calIndex' = i
    /\ samplesForCurrent' = [samplesForCurrent EXCEPT ![i] = <<>>]
    /\ collecting' = TRUE
    /\ Deref("dwell", DWELL_MS)
    /\ \E m \in modesAt(i) : user' = [user EXCEPT !.mode = m, !.since = now']
    /\ UNCHANGED <<calFit, calOutcome, calibrated, affineParams, overlay>>

\* lines 294-311: the samples are summarised
Summarise ==
    /\ calFit' = collectInputs(0, samplesForCurrent, win)
    /\ Deref("computeDelay", COMPUTE_DELAY_MS)
    /\ UNCHANGED <<calIndex, samplesForCurrent, collecting, calOutcome, calibrated,
                   affineParams, overlay, user>>

\* after line 276
CalAfterStartDelay ==
    /\ TimerFires("startDelay")
    /\ IF running THEN ShowDot(0) ELSE Summarise

\* mutant: dotEl is dereferenced before the flag is reset
collectingAfterDwell_derefFirst(ov) == ~ov

\* collecting after lines 289-290, ov telling whether the overlay is there:
\* the flag is reset before dotEl is dereferenced
collectingAfterDwell(ov) == FALSE

\* lines 289-291
CalAfterDwell ==
    /\ TimerFires("dwell")
    /\ collecting' = collectingAfterDwell(overlay)
    /\ Deref("pause", PAUSE_MS)
    /\ UNCHANGED <<calIndex, samplesForCurrent, calFit, calOutcome, calibrated,
                   affineParams, overlay, user>>

\* after line 291: i++ and the test of the for loop
CalAfterPause ==
    /\ TimerFires("pause")
    /\ IF calIndex + 1 < Len(CAL_POINTS) /\ running
       THEN ShowDot(calIndex + 1)
       ELSE Summarise

\* lines 313-319 and 325-329
CalAfterCompute ==
    /\ TimerFires("computeDelay")
    /\ LET params == fitOf(calFit)
       IN  IF params # Null
           THEN /\ affineParams' = params
                /\ calibrated' = TRUE
                /\ calOutcome' = "success"
                /\ Deref("successDelay", SUCCESS_DELAY_MS)
           ELSE /\ calibrated' = FALSE
                /\ affineParams' = Null
                /\ calOutcome' = "failure"
                /\ Deref("failDelay", FAIL_DELAY_MS)
    /\ UNCHANGED <<calIndex, samplesForCurrent, collecting, calFit, overlay, user>>

\* lines 320 and 330: removeOverlay()
CalAfterMessage ==
    /\ \/ TimerFires("successDelay")
       \/ TimerFires("failDelay")
    /\ overlay' = FALSE
    /\ calPc' = "done"
    /\ UNCHANGED <<calWake, calIndex, samplesForCurrent, collecting, calFit,
                   calOutcome, calibrated, affineParams, user>>

\* runCalibration() is awaiting a timer
calWaiting ==
    calPc \in {"startDelay", "dwell", "pause", "computeDelay", "successDelay",
               "failDelay"}

\* someone who looks where the dots are
Attentive == [follows |-> TRUE, mode |-> "dot", since |-> 0]

\* the double-blink tracker and the page hook are not mounted, the tracker of
\* the root layout is the one the tracker variables describe
InitElsewhere ==
    /\ blinkTimes = <<>>
    /\ reopenLog = <<>>
    /\ me = "layout"
    /\ peer = Null
    /\ eyelids = "open"
    /\ blinks = 0
    /\ handlerStack = <<>>
    /\ activations = 0
    /\ lastPos = Pt(0, 0)
    /\ target = "none"
    /\ listening = FALSE

\* the state when the effect has run: createOverlay() is done, init() is at
\* its first await
InitTracker ==
    /\ now = Epoch
    /\ phase = "boot"
    /\ running = TRUE
    /\ calibStart = 0
    /\ lastVideoTs = 0
    /\ earSamples = <<>>
    /\ earBaseline = 0
    /\ eyeClosed = FALSE
    /\ closedAt = 0
    /\ lastClickAt = 0
    /\ clickFreezeUntil = 0
    /\ win \in Screens
    /\ smooth = Pt(Px(win.w) \div 2, Px(win.h) \div 2)
    /\ posBuf = <<>>
    /\ calibrated = FALSE
    /\ affineParams = Null
    /\ collecting = FALSE
    /\ calIndex = 0
    /\ samplesForCurrent = [i \in 0..8 |-> <<>>]
    /\ lastMove = Null
    /\ clicks = <<>>
    /\ preClose = Null
    /\ lastAccept = Null
    /\ ev = [kind |-> "boot", trans |-> "none", accepted |-> FALSE, dur |-> 0,
             reading |-> 0, moves |-> 0, cand |-> Null, mapping |-> "none"]
    /\ rafPending = FALSE
    /\ overlay = TRUE
    /\ calPc = "notStarted"
    /\ calWake = 0
    /\ calFit = Null
    /\ calOutcome = "pending"
    /\ abortedAt = "none"
    /\ resizes = 0
    /\ tracksLive = FALSE
    /\ landmarkerOpen = FALSE
    /\ InitElsewhere

Init == InitTracker /\ user = Attentive

Boot == \E dt \in BootDelays : InitDone(dt)

\* The first seconds of the frame loop.  The timers of runCalibration() are
\* left out: within MaxTime the routine is showing its first dots and changes
\* collecting, calIndex and samplesForCurrent only, which the blink and gaze
\* steps do not read.
Loop ==
    \E dt \in Dts, det \in Dets :
        Bounded(dt, 0, det, MaxTime, MaxTs, MaxSamples) /\ Frame(dt, 0, det)

Next == Boot \/ Loop

Spec == Init /\ [][Next]_vars

\* The frame loop under a video clock that stalls, jumps back and runs ahead
LoopTs ==
    \E dt \in {30, 2000}, reading \in Readings, det \in {NoFace, Seen(FaceOpen)} :
        Bounded(dt, reading, det, MaxTime, MaxTs, MaxSamples) /\ Frame(dt, reading, det)

NextTs == Boot \/ LoopTs

SpecTs == Init /\ [][NextTs]_vars

\* The session through its calibration: the frame loop, the timers of
\* runCalibration() (a timer that is due fires before a later frame) and the
\* cleanup.  The person may or may not move the eyes with the dots.
InitCal == InitTracker /\ user \in {[Attentive EXCEPT !.follows = f] : f \in BOOLEAN}

LoopCal ==
    \E dt \in DtsCal :
        /\ now + dt <= Epoch + MaxTimeCal
        /\ calWaiting => now + dt < calWake
        /\ Frame(dt, 0, Watching(user, calIndex, now + dt))

CalTimers ==
    \/ CalAfterStartDelay
    \/ CalAfterDwell
    \/ CalAfterPause
    \/ CalAfterCompute
    \/ CalAfterMessage

NextCal == Boot \/ LoopCal \/ CalTimers \/ Cleanup \/ LoopStop

SpecCal == InitCal /\ [][NextCal]_vars

\* The frame loop in a hostile environment: the video is not ready, the
\* detector throws, finds no face or delivers a face without its eye
\* landmarks; the window is resized; the component is unmounted.
LoopEnv ==
    \E dt \in {30, 2000}, det \in DetsEnv :
        /\ Bounded(dt, 0, det, MaxTime, MaxTsEnv, MaxSamples)
        /\ det.kind = "notready" => dt = 2000
        /\ Frame(dt, 0, det)

Resized == \E w \in Sizes : Resize(w)

NextEnv == Boot \/ LoopEnv \/ Resized \/ Cleanup \/ LoopStop

SpecEnv == Init /\ [][NextEnv]_vars

\* The stabiliser of a calibrated session, fed by frames of someone who looks
\* from one edge of the window to the other.  The session starts after a
\* calibration in which every dot was watched, with the cursor and the
\* buffered candidates at the left edge, at the centre or at the right edge,
\* and possibly inside the freeze of a click.
fullSamples ==
    [i \in 0..8 |-> [k \in 1..4 |-> [u |-> 1 + CAL_POINTS[i + 1].x,
                                     v |-> 1 + CAL_POINTS[i + 1].y]]]

StabPositions == {Pt(0, Px(50)), Pt(Px(100), Px(50)), Pt(Px(200), Px(50))}

StabTs == 60

InitStab ==
    /\ InitElsewhere
    /\ now = Epoch + MaxTimeCal
    /\ phase = "loop"
    /\ running = TRUE
    /\ calibStart = 500
    /\ lastVideoTs = StabTs
    /\ earSamples = <<250>>
    /\ earBaseline = 250
    /\ eyeClosed = FALSE
    /\ closedAt = 0
    /\ win \in Screens
    /\ smooth \in StabPositions
    /\ \E p \in StabPositions, n \in {0, POS_BUF_SIZE} : posBuf = [k \in 1..n |-> p]
    /\ \/ /\ lastClickAt = 0
          /\ clickFreezeUntil = 0
          /\ lastAccept = Null
          /\ clicks = <<>>
       \/ /\ posBuf = <<>>
          /\ lastClickAt = now - 200
          /\ clickFreezeUntil = freezeDeadline(now - 200)
          /\ lastAccept = [t |-> now - 200, x |-> smooth.x, y |-> smooth.y]
          /\ clicks = dispatchClick(now - 200, RoundPx(smooth.x), RoundPx(smooth.y), win)
    /\ samplesForCurrent = fullSamples
    /\ calFit = collectInputs(0, fullSamples, win)
    /\ affineParams = fitOf(calFit)
    /\ calibrated = TRUE
    /\ calOutcome = "success"
    /\ collecting = FALSE
    /\ calIndex = 8
    /\ lastMove = [x |-> smooth.x, y |-> smooth.y, calibrated |-> TRUE]
    /\ preClose = Null
    /\ ev = [kind |-> "noface", trans |-> "none", accepted |-> FALSE, dur |-> 0,
             reading |-> 0, moves |-> 0, cand |-> Null, mapping |-> "none"]
    /\ rafPending = TRUE
    /\ overlay = FALSE
    /\ calPc = "done"
    /\ calWake = Epoch + MaxTimeCal - 100
    /\ abortedAt = "none"
    /\ resizes = 0
    /\ user = Attentive
    /\ tracksLive = TRUE
    /\ landmarkerOpen = TRUE

LoopStab ==
    \E face \in Gazes :
        /\ bumpTs(0, lastVideoTs) <= StabTs + MaxFeeds
        /\ Frame(30, 0, Seen(face))

NextStab == LoopStab

SpecStab == InitStab /\ [][NextStab]_vars

\* The frame loop around the end of the cooldown: the frames come 149, 150,
\* 450, 451 or 2000 ms apart, so that a blink can reopen 599, 600 or 601 ms
\* after the click before it.
DtsCool == {149, 150, 450, 451, 2000}

LoopCool ==
    \E dt \in DtsCool, det \in {Seen(FaceOpen), Seen(FaceShut)} :
        Bounded(dt, 0, det, MaxTime, MaxTsCool, MaxSamples) /\ Frame(dt, 0, det)

NextCool == Boot \/ LoopCool

SpecCool == Init /\ [][NextCool]_vars

----------------------------------------------------------------------------
\* The double-blink tracker (src/unnamed/part_001).  It has no calibration
\* overlay, no position buffer and no cooldown: the variables of those stay
\* as they are.

BLINK_WINDOW_MS == 600
DBL_SMOOTHING == 15
DBL_EAR_MIN == 120
DBL_EAR_MAX == 350
IRIS_IDX == <<468, 469, 470, 471>>

\* lines 165-174: the median of the sorted samples, 0.22 if it is 0 or outside
\* [0.12, 0.35]
dblBaselineOf(sorted) ==
    LET mid == Len(sorted) \div 2
        v == IF Len(sorted) % 2 = 1 THEN sorted[mid + 1]
             ELSE (sorted[mid] + sorted[mid + 1]) \div 2
    IN  IF v = 0 \/ v < DBL_EAR_MIN \/ v > DBL_EAR_MAX THEN EAR_FALLBACK ELSE v

\* ear < BLINK_THRESHOLD, with BLINK_THRESHOLD = earBaseline * 0.65
dblBelow(ear, base) == ear * 100 < base * 65

\* mutant: a blink exactly 600 ms old is dropped
withinWindow_strict(t, bt) == t - bt < BLINK_WINDOW_MS

\* the filter of line 188: t - bt <= BLINK_WINDOW_MS
withinWindow(t, bt) == t - bt <= BLINK_WINDOW_MS

\* lines 141-150: the cursor moves towards the iris centre scaled to the window
dblGaze(face, sm, w) ==
    LET c == center(MapSeq(IRIS_IDX, LAMBDA i : safeGet(face, i)))
        targetX == clamp((c.x * Px(w.w)) \div 1000, 0, Px(w.w))
        targetY == clamp((c.y * Px(w.h)) \div 1000, 0, Px(w.h))
    IN  Pt(sm.x + Scale(targetX - sm.x, DBL_SMOOTHING, 100),
           sm.y + Scale(targetY - sm.y, DBL_SMOOTHING, 100))

\* lines 138-206: the loop body for a result holding a face, at time t
DblFaceFrame(face, t, reading) ==
    LET sm == dblGaze(face, smooth, win)
        ear == eyeAspectRatio(MapSeq(LEFT_EYE_IDX, LAMBDA i : safeGet(face, i)))
        warm == warmingUp(perfNow(t), calibStart)
        compute == ~warm /\ earBaseline = 0 /\ Len(earSamples) > 0
        detect == ~warm /\ ~compute /\ earBaseline # 0
        closing == detect /\ dblBelow(ear, earBaseline) /\ ~eyeClosed
        closed1 == eyeClosed \/ closing
        opening == detect /\ ~dblBelow(ear, earBaseline) /\ closed1
        times1 == IF opening
                  THEN SelectSeq(Append(blinkTimes, t), LAMBDA bt : withinWindow(t, bt))
                  ELSE blinkTimes
        click == opening /\ Len(times1) >= 2
    IN  /\ smooth' = sm
        /\ lastMove' = [x |-> sm.x, y |-> sm.y]
        /\ earSamples' = IF warm THEN Append(earSamples, ear)
                         ELSE IF compute THEN SortAsc(earSamples) ELSE earSamples
        /\ earBaseline' = IF compute THEN dblBaselineOf(SortAsc(earSamples))
                          ELSE earBaseline
        /\ eyeClosed' = (closed1 /\ ~opening)
        /\ blinkTimes' = IF click THEN <<>> ELSE times1
        /\ reopenLog' = IF opening THEN Append(reopenLog, t) ELSE reopenLog
        /\ clicks' = IF click
                     THEN clicks \o dispatchClick(t, RoundPx(sm.x), RoundPx(sm.y), win)
                     ELSE clicks
        /\ ev' = [kind |-> "open",
                  trans |-> IF closing THEN "close" ELSE IF opening THEN "reopen" ELSE "none",
                  accepted |-> click, dur |-> 0, reading |-> reading, moves |-> 1,
                  cand |-> Null, mapping |-> "iris"]

\* a frame of the double-blink tracker that leaves its state alone
DblIdleFrame(kind, reading) ==
    /\ ev' = [kind |-> kind, trans |-> "none", accepted |-> FALSE, dur |-> 0,
              reading |-> reading, moves |-> 0, cand |-> Null, mapping |-> "none"]
    /\ UNCHANGED <<smooth, lastMove, earSamples, earBaseline, eyeClosed, dblVars, clicks>>

\* lines 118-214: loop(), called back dt after the event before it
DblFrame(dt, reading, det) ==
    /\ running
    /\ phase = "loop"
    /\ rafPending
    /\ now' = now + dt
    /\ rafPending' = TRUE
    /\ UNCHANGED <<phase, running, calibStart, closedAt, lastClickAt, clickFreezeUntil,
                   posBuf, calibrated, affineParams, collecting, calIndex,
                   samplesForCurrent, win, preClose, lastAccept, overlay, calVars,
                   user, abortedAt, resizes, resVars, twinVars, pageVars>>
    /\ IF det.kind = "notready"
       THEN /\ DblIdleFrame("notready", reading)
            /\ UNCHANGED lastVideoTs
       ELSE /\ lastVideoTs' = bumpTs(reading, lastVideoTs)
            /\ IF det.kind = "noface" THEN DblIdleFrame("noface", reading)
               ELSE IF det.kind = "throws" THEN DblIdleFrame("threw", reading)
               ELSE DblFaceFrame(det.face, now + dt, reading)

\* lines 60-112: init() run through, the camera, the video and the landmarker
\* being ready after dt
DblInitDone(dt) ==
    /\ phase = "boot"
    /\ now' = now + dt
    /\ calibStart' = perfNow(now + dt)
    /\ phase' = "loop"
    /\ rafPending' = TRUE
    /\ tracksLive' = TRUE
    /\ landmarkerOpen' = TRUE
    /\ UNCHANGED <<running, lastVideoTs, earSamples, earBaseline, eyeClosed, closedAt,
                   lastClickAt, clickFreezeUntil, smooth, posBuf, calibrated,
                   affineParams, collecting, calIndex, samplesForCurrent, win,
                   lastMove, clicks, preClose, lastAccept, ev, overlay, calVars,
                   user, abortedAt, resizes, elsewhere>>

\* the state when the effect of the double-blink tracker has run
InitDbl ==
    /\ now = Epoch
    /\ phase = "boot"
    /\ running = TRUE
    /\ calibStart = 0
    /\ lastVideoTs = 0
    /\ earSamples = <<>>
    /\ earBaseline = 0
    /\ eyeClosed = FALSE
    /\ win \in Screens
    /\ smooth = Pt(Px(win.w) \div 2, Px(win.h) \div 2)
    /\ lastMove = Null
    /\ clicks = <<>>
    /\ ev = [kind |-> "boot", trans |-> "none", accepted |-> FALSE, dur |-> 0,
             reading |-> 0, moves |-> 0, cand |-> Null, mapping |-> "none"]
    /\ rafPending = FALSE
    /\ tracksLive = FALSE
    /\ landmarkerOpen = FALSE
    /\ InitElsewhere
    /\ closedAt = 0 /\ lastClickAt = 0 /\ clickFreezeUntil = 0
    /\ posBuf = <<>> /\ calibrated = FALSE /\ affineParams = Null
    /\ collecting = FALSE /\ calIndex = 0
    /\ samplesForCurrent = [i \in 0..8 |-> <<>>]
    /\ preClose = Null /\ lastAccept = Null
    /\ overlay = FALSE
    /\ calPc = "notStarted" /\ calWake = 0 /\ calFit = Null /\ calOutcome = "pending"
    /\ abortedAt = "none" /\ resizes = 0
    /\ user = Attentive

\* the gaps between its frames: blinks 100 ms, 300 ms or 301 ms long and apart
DtsDbl == {100, 300, 301, 2000}

BootDbl == \E dt \in BootDelays : DblInitDone(dt)

LoopDbl ==
    \E dt \in DtsDbl, det \in {Seen(FaceOpen), Seen(FaceShut)} :
        /\ now + dt <= Epoch + MaxTimeDbl
        /\ bumpTs(0, lastVideoTs) <= MaxTsDbl
        /\ DblFrame(dt, 0, det)

NextDbl == BootDbl \/ LoopDbl

SpecDbl == InitDbl /\ [][NextDbl]_vars

----------------------------------------------------------------------------
\* The page's eye-to-click hook (src/unnamed/part_000, useEyeToClickIntegration).
\* A running handler is a record on handlerStack: fn is the listener, type
\* the kind of activation, (x, y) the point, pc what it does next.  Events
\* are dispatched synchronously: a listener called by window.dispatchEvent
\* runs to its end before dispatchEvent returns.

\* lines 41-46
pageClamp(pt, w) ==
    Pt(clamp(pt.x, 0, w.w - 1), clamp(pt.y, 0, w.h - 1))

\* lines 48-60: coordinates within [0, 1] are taken as fractions of the window
setFromDetail(detail, pos, w) ==
    IF detail = Null THEN pos
    ELSE IF detail.x >= 0 /\ detail.x <= 1 /\ detail.y >= 0 /\ detail.y <= 1
    THEN pageClamp(Pt(detail.x * w.w, detail.y * w.h), w)
    ELSE pageClamp(Pt(detail.x, detail.y), w)

\* what the page holds under a point: nothing, an input, a button or link,
\* or an element that is neither
Targets == {"none", "input", "button", "other"}

\* lines 92-131, up to the call of dispatchEyeEvents: whether triggerAtPoint
\* activates an element (focus and click on an input, click() on a clickable
\* ancestor, mousedown, mouseup and click otherwise)
activates(el) == el # "none"

\* the points notifications carry
PagePoints == {Pt(1, 1), Pt(50, 50), Pt(300, 50)}

\* a listener is entered
entered(fn, type, pt) == [fn |-> fn, type |-> type, x |-> pt.x, y |-> pt.y, pc |-> "trigger"]

Top == handlerStack[Len(handlerStack)]

\* the top of the stack moves on to pc
advance(pc) == [handlerStack EXCEPT ![Len(handlerStack)].pc = pc]

\* window.dispatchEvent calls the hook's own listener for the event; if the
\* call stack is exhausted the call fails with a RangeError, which is
\* reported to the window or caught by the try around dispatchEvent
reenter(stack, frame) ==
    IF Len(stack) < MaxDepth THEN Append(stack, frame) ELSE stack

pageIdle ==
    <<now, phase, running, calibStart, lastVideoTs, earSamples, earBaseline,
      eyeClosed, closedAt, lastClickAt, clickFreezeUntil, smooth, posBuf,
      calibrated, affineParams, collecting, calIndex, samplesForCurrent, win,
      lastMove, clicks, preClose, lastAccept, ev, rafPending, overlay, calVars,
      user, abortedAt, resizes, resVars, dblVars, twinVars>>

\* lines 38-150: the effect of the hook runs
PageMount ==
    /\ ~listening
    /\ listening' = TRUE
    /\ lastPos' = Pt((win.w + 1) \div 2, (win.h + 1) \div 2)
    /\ UNCHANGED <<handlerStack, activations, target, pageIdle>>

\* lines 152-159: its cleanup
PageUnmount ==
    /\ listening
    /\ handlerStack = <<>>
    /\ listening' = FALSE
    /\ UNCHANGED <<handlerStack, activations, lastPos, target, pageIdle>>

\* lines 72-76: an "eye-move" arrives
onEyeMove(pt) ==
    /\ listening
    /\ handlerStack = <<>>
    /\ lastPos' = setFromDetail(pt, lastPos, win)
    /\ UNCHANGED <<handlerStack, activations, target, listening, pageIdle>>

\* lines 133-135: an "eye-click" arrives from outside, el being under the cursor
onEyeClick(el) ==
    /\ listening
    /\ handlerStack = <<>>
    /\ target' = el
    /\ activations' = 0
    /\ handlerStack' = <<entered("onEyeClick", "click", pageClamp(lastPos, win))>>
    /\ UNCHANGED <<lastPos, listening, pageIdle>>

\* lines 143-149: an "eye-event" of type click arrives from outside
onEyeEvent(pt, el) ==
    /\ listening
    /\ handlerStack = <<>>
    /\ target' = el
    /\ activations' = 0
    /\ lastPos' = setFromDetail(pt, lastPos, win)
    /\ handlerStack' = <<entered("onEyeEvent", "click", pageClamp(pt, win))>>
    /\ UNCHANGED <<listening, pageIdle>>

\* lines 92-131: triggerAtPoint up to its call of dispatchEyeEvents
TriggerAtPoint ==
    /\ handlerStack # <<>>
    /\ Top.pc = "trigger"
    /\ activations' = activations + (IF activates(target) THEN 1 ELSE 0)
    /\ handlerStack' = advance("eye-event")
    /\ UNCHANGED <<lastPos, target, listening, pageIdle>>

\* lines 84-86: dispatchEyeEvents dispatches "eye-event"; onEyeEvent is called
\* with its detail
DispatchEyeEvent ==
    /\ handlerStack # <<>>
    /\ Top.pc = "eye-event"
    /\ LET d == Pt(Top.x, Top.y)
           called == reenter(advance("eye-click"),
                             entered("onEyeEvent", Top.type, pageClamp(d, win)))
       IN  /\ handlerStack' = called
           /\ lastPos' = IF Len(called) > Len(handlerStack)
                         THEN setFromDetail(d, lastPos, win) ELSE lastPos
    /\ UNCHANGED <<activations, target, listening, pageIdle>>

\* lines 87-89: dispatchEyeEvents dispatches "eye-click"; onEyeClick is called
DispatchEyeClick ==
    /\ handlerStack # <<>>
    /\ Top.pc = "eye-click"
    /\ handlerStack' = reenter(advance("return"),
                               entered("onEyeClick", "click", pageClamp(lastPos, win)))
    /\ UNCHANGED <<activations, lastPos, target, listening, pageIdle>>

\* the listener returns to the dispatchEvent that called it
HandlerReturns ==
    /\ handlerStack # <<>>
    /\ Top.pc = "return"
    /\ handlerStack' = SubSeq(handlerStack, 1, Len(handlerStack) - 1)
    /\ UNCHANGED <<activations, lastPos, target, listening, pageIdle>>

Notified ==
    \/ \E pt \in PagePoints : onEyeMove(pt)
    \/ \E el \in Targets : onEyeClick(el)
    \/ \E pt \in PagePoints, el \in Targets : onEyeEvent(pt, el)

NextPage ==
    \/ PageMount
    \/ PageUnmount
    \/ Notified
    \/ TriggerAtPoint
    \/ DispatchEyeEvent
    \/ DispatchEyeClick
    \/ HandlerReturns

SpecPage == Init /\ [][NextPage]_vars

\* The session with init() taken one await at a time, so that the cleanup can
\* run between any two of its steps, followed by the first frames.
InitSteps ==
    \/ InitCamera
    \/ InitVideo
    \/ InitFileset
    \/ \E dt \in BootDelays : InitModel(dt)
    \/ InitFails

LoopInit ==
    \E dt \in {30, 2000}, det \in {NoFace, Seen(FaceOpen), Seen(FaceShut)} :
        Bounded(dt, 0, det, MaxTime, MaxTsInit, MaxSamples) /\ Frame(dt, 0, det)

NextInit == InitSteps \/ LoopInit \/ Cleanup \/ LoopStop

SpecInit == Init /\ [][NextInit]_vars

----------------------------------------------------------------------------
\* Two mounted trackers.  The root layout renders <EyeTracker /> and so does
\* the home page: each runs the effect, with its own closure variables, its
\* own camera stream and its own frame callbacks.  The tracker variables are
\* those of the tracker `me`; those of the other one are kept in `peer`.
\* The callbacks of one display frame run one after the other, the layout's
\* first, and see the same eyelids.

\* the variables of the effect's closure, as a record
mine ==
    [phase |-> phase, running |-> running, calibStart |-> calibStart,
     lastVideoTs |-> lastVideoTs, earSamples |-> earSamples,
     earBaseline |-> earBaseline, eyeClosed |-> eyeClosed, closedAt |-> closedAt,
     lastClickAt |-> lastClickAt, clickFreezeUntil |-> clickFreezeUntil,
     smooth |-> smooth, posBuf |-> posBuf, calibrated |-> calibrated,
     affineParams |-> affineParams, collecting |-> collecting,
     calIndex |-> calIndex, samplesForCurrent |-> samplesForCurrent,
     preClose |-> preClose, lastAccept |-> lastAccept, ev |-> ev,
     rafPending |-> rafPending, overlay |-> overlay, calPc |-> calPc,
     calWake |-> calWake, calFit |-> calFit, calOutcome |-> calOutcome,
     abortedAt |-> abortedAt, tracksLive |-> tracksLive,
     landmarkerOpen |-> landmarkerOpen]

\* what is not of one tracker's closure: the clock, the window, the events
\* dispatched, the person, the other programs
shared ==
    <<now, win, lastMove, clicks, user, resizes, dblVars, pageVars, eyelids, blinks>>

\* page.tsx line 11: the page's <EyeTracker /> is mounted and its effect runs
\* up to the first await of init()
MountPeer ==
    /\ peer = Null
    /\ phase = "boot"
    /\ peer' = mine
    /\ UNCHANGED <<me, eyelids, blinks, now, phase, running, calibStart, lastVideoTs,
                   earSamples, earBaseline, eyeClosed, closedAt, lastClickAt,
                   clickFreezeUntil, smooth, posBuf, calibrated, affineParams,
                   collecting, calIndex, samplesForCurrent, win, lastMove, clicks,
                   preClose, lastAccept, ev, rafPending, overlay, calVars, user,
                   abortedAt, resizes, resVars, dblVars, pageVars>>

\* the tracker whose turn it is has had it: the layout's tracker is one step
\* ahead of the page's, or the page's has caught up
turnOver ==
    IF me = "layout"
    THEN \/ phase = "loop" /\ peer.phase = "boot"
         \/ peer.phase = "loop" /\ lastVideoTs > peer.lastVideoTs
    ELSE phase = "loop" /\ lastVideoTs = peer.lastVideoTs

\* the browser goes from the callbacks of one tracker to those of the other
Switch ==
    /\ peer # Null
    /\ turnOver
    /\ me' = IF me = "layout" THEN "page" ELSE "layout"
    /\ peer' = mine
    /\ phase' = peer.phase
    /\ running' = peer.running
    /\ calibStart' = peer.calibStart
    /\ lastVideoTs' = peer.lastVideoTs
    /\ earSamples' = peer.earSamples
    /\ earBaseline' = peer.earBaseline
    /\ eyeClosed' = peer.eyeClosed
    /\ closedAt' = peer.closedAt
    /\ lastClickAt' = peer.lastClickAt
    /\ clickFreezeUntil' = peer.clickFreezeUntil
    /\ smooth' = peer.smooth
    /\ posBuf' = peer.posBuf
    /\ calibrated' = peer.calibrated
    /\ affineParams' = peer.affineParams
    /\ collecting' = peer.collecting
    /\ calIndex' = peer.calIndex
    /\ samplesForCurrent' = peer.samplesForCurrent
    /\ preClose' = peer.preClose
    /\ lastAccept' = peer.lastAccept
    /\ ev' = peer.ev
    /\ rafPending' = peer.rafPending
    /\ overlay' = peer.overlay
    /\ calPc' = peer.calPc
    /\ calWake' = peer.calWake
    /\ calFit' = peer.calFit
    /\ calOutcome' = peer.calOutcome
    /\ abortedAt' = peer.abortedAt
    /\ tracksLive' = peer.tracksLive
    /\ landmarkerOpen' = peer.landmarkerOpen
    /\ UNCHANGED shared

\* the display frames are over for both trackers
betweenFrames ==
    /\ peer # Null
    /\ me = "layout"
    /\ phase = "loop" /\ peer.phase = "loop"
    /\ lastVideoTs = peer.lastVideoTs

\* the person shuts or opens the eyes between two display frames
Lids ==
    /\ betweenFrames
    /\ blinks < MaxBlinks
    /\ eyelids' = IF eyelids = "open" THEN "shut" ELSE "open"
    /\ blinks' = IF eyelids = "open" THEN blinks + 1 ELSE blinks
    /\ UNCHANGED <<me, peer, now, phase, running, calibStart, lastVideoTs,
                   earSamples, earBaseline, eyeClosed, closedAt, lastClickAt,
                   clickFreezeUntil, smooth, posBuf, calibrated, affineParams,
                   collecting, calIndex, samplesForCurrent, win, lastMove, clicks,
                   preClose, lastAccept, ev, rafPending, overlay, calVars, user,
                   abortedAt, resizes, resVars, dblVars, pageVars>>

\* what both cameras show
FaceNow == Seen(IF eyelids = "shut" THEN FaceShut ELSE FaceOpen)

\* init() of either tracker ends: the layout's after a delay, the page's in
\* the same moment
BootTwin ==
    /\ peer # Null
    /\ IF me = "layout" THEN \E dt \in BootDelays : InitDone(dt) ELSE InitDone(0)

\* a display frame: the callback of the layout's tracker, dt after the frame
\* before, then the callback of the page's
LoopTwin ==
    \/ /\ betweenFrames
       /\ \E dt \in {150, 2000} :
              Bounded(dt, 0, FaceNow, MaxTime, MaxTsTwin, MaxSamples) /\ Frame(dt, 0, FaceNow)
    \/ /\ peer # Null /\ me = "page"
       /\ lastVideoTs < peer.lastVideoTs
       /\ Frame(0, 0, FaceNow)

NextTwin == MountPeer \/ BootTwin \/ Switch \/ Lids \/ LoopTwin

SpecTwin == Init /\ [][NextTwin]_vars

----------------------------------------------------------------------------
\* Claims

FaceKinds == {"open", "closed"}
DetectKinds == {"noface", "open", "closed"}

\* a step that is a processed frame with a face in it
FaceStep == lastVideoTs' # lastVideoTs /\ ev'.kind \in FaceKinds

\* a face frame on which the classifier goes from Closed to Open
ReopenStep == FaceStep /\ eyeClosed /\ ~eyeClosed'

\* a face frame on which a blink is accepted as a click
AcceptStep == FaceStep /\ lastClickAt' # lastClickAt

\* buf2 is buf after one push: nothing of buf is dropped but, at capacity, its
\* oldest entry
PushedOnto(buf, buf2) ==
    /\ Len(buf2) = (IF Len(buf) < POS_BUF_SIZE THEN Len(buf) + 1 ELSE POS_BUF_SIZE)
    /\ IF Len(buf) < POS_BUF_SIZE
       THEN SubSeq(buf2, 1, Len(buf)) = buf
       ELSE SubSeq(buf2, 1, POS_BUF_SIZE - 1) = Tail(buf)

\* C1 (freeze invariant): while the classifier is Closed, from the frame on
\* which it closes, the position last reported, the smoothed position and the
\* position buffer are those of the last frame before the closure.
C1_FreezeWhileClosed ==
    eyeClosed =>
        /\ preClose # Null
        /\ preClose.move # Null
        /\ lastMove.x = preClose.move.x /\ lastMove.y = preClose.move.y
        /\ smooth = preClose.smooth
        /\ posBuf = preClose.buf

\* the eye has been closed over at least two processed frames
C1_Witness ==
    /\ eyeClosed
    /\ ev.kind = "closed" /\ ev.trans = "none"
    /\ Len(posBuf) >= 2

\* C2 (debounce), as claimed: any two click events the tracker has dispatched
\* are at least 600 ms apart.
C2_ClicksApart ==
    \A i, j \in 1..Len(clicks) :
        i < j => clicks[j].t - clicks[i].t >= CLICK_COOLDOWN_MS

\* C3 (duration filter, rejection): a Closed->Open transition after less than
\* 60 ms or more than 400 ms dispatches no click and leaves lastClickAt and
\* clickFreezeUntil alone; the buffer is not cleared, the frame's own gaze step
\* pushes its candidate onto it.
C3_OutOfRangeRejected ==
    [][ (ReopenStep /\ (now' - closedAt < MIN_BLINK_MS \/ now' - closedAt > MAX_BLINK_MS))
        => /\ clicks' = clicks
           /\ lastClickAt' = lastClickAt
           /\ clickFreezeUntil' = clickFreezeUntil
           /\ PushedOnto(posBuf, posBuf') ]_vars

\* a closure of 30 ms was rejected although the cooldown had passed and the
\* buffer read by the stability check was stable
C3_Witness ==
    /\ ev.trans = "reopen" /\ ev.dur = 30 /\ ~ev.accepted
    /\ now - lastClickAt > CLICK_COOLDOWN_MS
    /\ Len(posBuf) >= 2
    /\ madPx(SubSeq(posBuf, 1, Len(posBuf) - 1)) <= Px(CLICK_MAD_PX)

\* C4 (duration filter, acceptance), as claimed: a closure of 150 ms that
\* reopens on a stable buffer dispatches exactly one click event.
C4_ExactlyOneClick ==
    [][ (ReopenStep /\ now' - closedAt = 150 /\ madPx(posBuf) <= Px(CLICK_MAD_PX))
        => Len(clicks') = Len(clicks) + 1 ]_vars

\* C5 (pre-closure stability gate): the buffer the reopening frame evaluates is
\* the buffer as it was when the eye closed, and a blink is accepted only if
\* the MAD of that buffer is at most 12 px.
C5_StabilityGate ==
    [][ ReopenStep =>
          /\ preClose # Null
          /\ posBuf = preClose.buf
          /\ AcceptStep => madPx(preClose.buf) <= Px(CLICK_MAD_PX) ]_vars

\* a blink was refused on an unstable buffer alone: its duration was in range
\* and no click had been accepted before
C5_Witness ==
    /\ ev.trans = "reopen" /\ ~ev.accepted
    /\ ev.dur >= MIN_BLINK_MS /\ ev.dur <= MAX_BLINK_MS
    /\ lastClickAt = 0
    /\ Len(posBuf) >= 3
    /\ madPx(SubSeq(posBuf, 1, Len(posBuf) - 1)) > Px(CLICK_MAD_PX)

\* C6 (click freeze): from an accepted click until its freeze deadline the
\* smoothed position and the position reported are those reported at the click.
C6_ClickFreeze ==
    (lastAccept # Null /\ now < lastAccept.t + CLICK_FREEZE_MS) =>
        /\ smooth.x = lastAccept.x /\ smooth.y = lastAccept.y
        /\ lastMove.x = lastAccept.x /\ lastMove.y = lastAccept.y

\* an open frame inside the freeze window saw a gaze that would have moved the
\* cursor: its candidate, away from the held position, is in the buffer
C6_Witness ==
    /\ lastAccept # Null /\ now < lastAccept.t + CLICK_FREEZE_MS
    /\ now > lastAccept.t
    /\ ev.kind = "open"
    /\ posBuf # <<>> /\ posBuf[Len(posBuf)].x # smooth.x

\* C7: an accepted click clears the buffer: after the frame of the click the
\* buffer holds that frame's candidate and nothing pushed before the click.
C7_ClearedOnClick ==
    [][ AcceptStep => Len(posBuf') = 1 ]_vars

\* a click has just been accepted: the frame's candidate is all the buffer holds
C7_Witness ==
    /\ ev.accepted
    /\ preClose = Null
    /\ Len(posBuf) = 1
    /\ lastAccept # Null /\ lastAccept.t = now

\* C8: every call of detectForVideo gets a greater timestamp than the call
\* before: the clock reading if it is greater than the last timestamp, the
\* last timestamp + 1 otherwise.
C8_TimestampsIncrease ==
    [][ (now' # now /\ ev'.kind \in DetectKinds)
        => /\ lastVideoTs' > lastVideoTs
           /\ lastVideoTs' = (IF ev'.reading > lastVideoTs THEN ev'.reading
                              ELSE lastVideoTs + 1) ]_vars

\* the clock read less than the last timestamp and the timestamp went up by one
C8_Witness ==
    /\ ev.kind \in DetectKinds
    /\ ev.reading < lastVideoTs - 1
    /\ lastVideoTs > 5

\* C9, as claimed: samples are accumulated only in the warm-up, every face
\* frame after the warm-up leaves a baseline set, and a baseline once set does
\* not change.
C9_BaselineOnceAsClaimed ==
    [][ /\ Len(earSamples') > Len(earSamples)
            => perfNow(now') - calibStart < CALIBRATE_MS
        /\ (FaceStep /\ perfNow(now') - calibStart >= CALIBRATE_MS)
            => earBaseline' # 0
        /\ earBaseline # 0 => earBaseline' = earBaseline ]_vars

\* C9, amended: the baseline is set on the first face frame after the warm-up
\* provided a sample was accumulated in the warm-up.
C9_BaselineOnce ==
    [][ /\ Len(earSamples') > Len(earSamples)
            => perfNow(now') - calibStart < CALIBRATE_MS
        /\ (FaceStep /\ perfNow(now') - calibStart >= CALIBRATE_MS /\ earSamples # <<>>)
            => earBaseline' # 0
        /\ earBaseline # 0 => earBaseline' = earBaseline ]_vars

\* a baseline set from two samples has outlived a face frame with another EAR
C9_Witness ==
    /\ earBaseline = 300
    /\ Len(earSamples) = 2
    /\ ev.kind = "closed"

\* C10, as claimed: a stored baseline lies in [0.12, 0.35].
C10_BaselineInRange ==
    earBaseline # 0 => (earBaseline >= 120 /\ earBaseline <= 350)

\* C11: on a face frame that ends without a baseline the classifier is not
\* Closed and no click has been dispatched, and the frame maps the gaze: it
\* pushes a candidate and reports the smoothed position.
C11_NoBaselineNoBlink ==
    [][ (FaceStep /\ earBaseline' = 0)
        => /\ ~eyeClosed'
           /\ clicks' = <<>>
           /\ ev'.kind = "open" /\ ev'.mapping # "none" /\ ev'.moves = 1
           /\ PushedOnto(posBuf, posBuf')
           /\ lastMove'.x = smooth'.x /\ lastMove'.y = smooth'.y ]_vars

\* without a baseline, frames with the eye shut (EAR 0.10) have been mapped
C11_Witness ==
    /\ earBaseline = 0
    /\ Len(earSamples) >= 2 /\ earSamples[Len(earSamples)] = 100
    /\ ev.kind = "open" /\ ev.mapping = "fallback"
    /\ Len(posBuf) >= 2

\* the grid points with at least three samples
usablePoints == {i \in 0..8 : Len(samplesForCurrent[i]) >= 3}

\* the (u, v) a grid point is summarised to
summaryOf(i) ==
    [x |-> median(MapSeq(samplesForCurrent[i], LAMBDA z : z.u)),
     y |-> median(MapSeq(samplesForCurrent[i], LAMBDA z : z.v))]

\* the normal-equations matrix of a set of points is non-singular iff three
\* of the points are not on one line
nonSingular(points) ==
    \E i, j, k \in points :
        LET a == summaryOf(i)
            b == summaryOf(j)
            c == summaryOf(k)
        IN  (b.x - a.x) * (c.y - a.y) # (c.x - a.x) * (b.y - a.y)

\* C12 (calibration validity): calibrated implies coefficients that are set
\* and were solved from at least five grid points of at least three samples
\* each, not all on one line; if the eyes followed the dots, the coefficients
\* map each point's summary onto its dot; a frame is mapped by the
\* coefficients only when calibrated.
C12_CalibrationValid ==
    /\ calibrated =>
          /\ affineParams # Null
          /\ Cardinality(usablePoints) >= 5
          /\ nonSingular(usablePoints)
          /\ user.follows =>
                \A i \in usablePoints :
                    applyAffine(affineParams, summaryOf(i), win) = calTarget(i, win)
    /\ ev.mapping = "affine" => (calibrated /\ affineParams # Null)

\* calibrated from exactly five usable points, and a frame mapped by the
\* coefficients
C12_Witness ==
    /\ calibrated
    /\ Cardinality(usablePoints) = 5
    /\ \E i \in 0..8 : Len(samplesForCurrent[i]) = 2
    /\ ev.mapping = "affine"

\* C13 (calibration failure): once the routine has decided, with fewer than
\* five usable points or all of them on one line, calibrated is false and the
\* coefficients are null, in every later state, and the frames are mapped by
\* the fallback.
C13_FailureIsPermanent ==
    (calOutcome # "pending" /\ (Cardinality(usablePoints) < 5 \/ ~nonSingular(usablePoints)))
        => /\ calOutcome = "failure"
           /\ ~calibrated
           /\ affineParams = Null
           /\ ev.mapping # "affine"

\* the routine failed on nine usable points on one line and is over; a later
\* frame was mapped by the fallback
C13_Witness ==
    /\ calOutcome = "failure" /\ calPc = "done"
    /\ Cardinality(usablePoints) = 9
    /\ now > calWake
    /\ ev.mapping = "fallback"

\* C14 (abort), as claimed: after a cleanup during the initial delay, a dwell, a
\* pause or the compute delay, calibrated is false and the coefficients are null.
C14_AbortLeavesUncalibrated ==
    abortedAt \in {"startDelay", "dwell", "pause", "computeDelay"}
        => (~calibrated /\ affineParams = Null)

\* C15 (outlier clamp): on every face frame, whatever the regime, the position
\* reported is within 0.15 * max(width, height) of the position reported
\* before it.
C15_OutlierClamp ==
    [][ FaceStep =>
          LET dx == smooth'.x - smooth.x
              dy == smooth'.y - smooth.y
              r == (Px(IF win'.w >= win'.h THEN win'.w ELSE win'.h) * 15) \div 100
          IN  /\ dx * dx + dy * dy <= r * r
              /\ lastMove'.x = smooth'.x /\ lastMove'.y = smooth'.y ]_vars

\* the first candidate was 44 px from the centre of the window and the
\* position reported is 30 px from it
C15_Witness ==
    /\ posBuf = <<Pt(Px(144), Px(50))>>
    /\ smooth = Pt(Px(130), Px(50))
    /\ lastClickAt = 0

\* the buffer holds eleven entries, all of them c
elevenOf(buf, c) == Len(buf) = POS_BUF_SIZE /\ \A k \in 1..Len(buf) : buf[k] = c

\* the square of the maximum-jump radius in window w
radius2(w) ==
    LET r == (Px(IF w.w >= w.h THEN w.w ELSE w.h) * 15) \div 100
    IN  r * r

\* the square of the distance from p to q
dist2(p, q) == (p.x - q.x) * (p.x - q.x) + (p.y - q.y) * (p.y - q.y)

\* C16 (stabiliser snap), as claimed: the eleventh of eleven frames in a row
\* with the same candidate, in a session without a click, finds a MAD of 0 and
\* reports that point.
C16_SnapFromAnywhere ==
    [][ (FaceStep /\ ev'.cand # Null /\ elevenOf(posBuf', ev'.cand)
                  /\ lastClickAt' = 0 /\ lastVideoTs' >= StabTs + POS_BUF_SIZE)
        => (madPx(posBuf') = 0 /\ smooth' = ev'.cand) ]_vars

\* C16, amended: such a frame finds a MAD of 0 and reports that point if the
\* point is within the maximum-jump radius of the position reported before;
\* otherwise the position reported is that radius nearer to the point.
C16_SnapWithinRadius ==
    [][ (FaceStep /\ ev'.cand # Null /\ elevenOf(posBuf', ev'.cand)
                  /\ now' >= clickFreezeUntil')
        => /\ madPx(posBuf') = 0
           /\ lastMove'.x = smooth'.x /\ lastMove'.y = smooth'.y
           /\ IF dist2(ev'.cand, smooth) <= radius2(win')
              THEN smooth' = ev'.cand
              ELSE /\ dist2(smooth', smooth) = radius2(win')
                   /\ dist2(ev'.cand, smooth') < dist2(ev'.cand, smooth) ]_vars

\* eleven identical candidates at the right edge are in the buffer and the
\* position reported is that point, after a session that began with the cursor
\* and the buffer at the left edge
C16_Witness ==
    /\ ev.cand # Null /\ elevenOf(posBuf, ev.cand)
    /\ ev.cand = Pt(Px(200), Px(50))
    /\ smooth = ev.cand
    /\ lastVideoTs = StabTs + MaxFeeds

\* C17 (buffer capacity): the buffer never holds more than eleven entries; a
\* frame that pushes a candidate onto it, no click accepted, appends the
\* candidate and, at capacity, drops the oldest entry and no other.
C17_BufferFifo ==
    [][ /\ Len(posBuf') <= POS_BUF_SIZE
        /\ (FaceStep /\ ev'.cand # Null /\ ~AcceptStep)
            => /\ PushedOnto(posBuf, posBuf')
               /\ posBuf'[Len(posBuf')] = ev'.cand ]_vars

\* a push onto a full buffer of candidates at the left edge: the buffer holds
\* ten of them and the new candidate at the right edge
C17_Witness ==
    /\ Len(posBuf) = POS_BUF_SIZE
    /\ posBuf[1] = Pt(0, Px(50))
    /\ posBuf[POS_BUF_SIZE - 1] = Pt(0, Px(50))
    /\ posBuf[POS_BUF_SIZE] = Pt(Px(200), Px(50))
    /\ lastVideoTs = StabTs + 1

\* a step in which loop() ran with the session running
LoopRan == phase = "loop" /\ now' # now

\* C18, as claimed: every frame for which the detector was called dispatches
\* one position update.
C18_UpdateEveryFrame ==
    [][ (LoopRan /\ lastVideoTs' # lastVideoTs) => ev'.moves = 1 ]_vars

\* p lies inside window w
inWindow(p, w) == p.x >= 0 /\ p.x <= Px(w.w) /\ p.y >= 0 /\ p.y <= Px(w.h)

\* C19, as claimed: after a face frame that follows a resize, the position
\* reported, the smoothed position and every buffered position lie inside the
\* new window; a resize leaves calibrated and the coefficients alone.
C19_ReclampedAfterResize ==
    [][ /\ (FaceStep /\ resizes > 0)
            => /\ inWindow(lastMove', win')
               /\ inWindow(smooth', win')
               /\ \A k \in 1..Len(posBuf') : inWindow(posBuf'[k], win')
        /\ win' # win => (calibrated' = calibrated /\ affineParams' = affineParams) ]_vars

\* C20 (no input halts the session): a running session in its loop has a frame
\* callback outstanding, and every run of loop() in a running session, the
\* video not ready, no face, landmarks missing or an exception thrown, ends
\* with the next callback requested.
C20_LoopNeverHalts ==
    [][ /\ (running' /\ phase' = "loop") => rafPending'
        /\ LoopRan => rafPending' ]_vars

\* the detector threw on a frame after a face frame, and the next callback is
\* outstanding
C20_Witness ==
    /\ running /\ rafPending
    /\ ev.kind = "threw"
    /\ Len(posBuf) >= 1 /\ lastVideoTs >= 2

\* C21 (cooldown boundary), as claimed: a blink of a duration in [60, 400] ms
\* that reopens over a stable buffer is discarded exactly when less than
\* 600 ms have passed since the last accepted click; at 600 ms or more it
\* is accepted.
C21_CooldownBoundary ==
    [][(ReopenStep /\ isBlinkDuration(ev'.dur) /\ stableBeforeClick(posBuf))
         => (ev'.accepted <=> now' - lastClickAt >= CLICK_COOLDOWN_MS)]_vars

\* a step on which runCalibration() makes a grid point active
ActivateStep == ~collecting /\ collecting'

\* the iris-centre estimate of the person in front of the camera
irisSeen ==
    IF user.follows
    THEN [u |-> 1 + CAL_POINTS[calIndex + 1].x, v |-> 1 + CAL_POINTS[calIndex + 1].y]
    ELSE [u |-> 6, v |-> 6]

\* C22 (calibration sampling), as claimed: every face frame processed while a
\* grid point is active appends one sample to that point's list.
C22_EverySampleAppended ==
    [][(FaceStep /\ collecting)
         => Len(samplesForCurrent'[calIndex]) = Len(samplesForCurrent[calIndex]) + 1]_vars

\* C22, amended: the grid points become active one at a time in the order
\* 0..8, each with its list emptied; a face frame processed while a point is
\* active appends its iris-centre estimate to that point's list unless the
\* classifier is Closed at the end of the frame, in which case it appends
\* nothing; and the lists change on no other step.
C22_CalibrationSampling ==
    [][ /\ ActivateStep =>
              /\ calIndex' = (IF calPc = "startDelay" THEN 0 ELSE calIndex + 1)
              /\ calIndex' \in 0..8
              /\ samplesForCurrent' = [samplesForCurrent EXCEPT ![calIndex'] = <<>>]
        /\ (FaceStep /\ collecting /\ ev'.kind = "open") =>
              /\ collecting' /\ calIndex' = calIndex
              /\ samplesForCurrent' =
                   [samplesForCurrent EXCEPT ![calIndex] = Append(@, irisSeen)]
        /\ (FaceStep /\ collecting /\ ev'.kind = "closed") =>
              samplesForCurrent' = samplesForCurrent
        /\ (~ActivateStep /\ ~(FaceStep /\ collecting)) =>
              samplesForCurrent' = samplesForCurrent ]_vars

\* the second grid point is active, the person blinked when it appeared: the
\* frame with the eye shut left no sample, the two frames since left one each
C22_Witness ==
    /\ collecting /\ calIndex = 1
    /\ user.mode = "blink"
    /\ ev.kind = "open"
    /\ Len(samplesForCurrent[1]) = 2
    /\ Len(samplesForCurrent[0]) = 4
    /\ now - user.since >= 600

\* the click events dispatched on this step
newClicks == SubSeq(clicks', Len(clicks) + 1, Len(clicks'))

\* pixel x is the tenth-of-a-pixel value v rounded to the nearest pixel
roundedFrom(x, v) == 10 * x - v \in -4..5

\* C23 (click position): click events are dispatched only on a frame that
\* takes the classifier from Closed to Open and accepts the blink; they carry
\* the time of that frame and the position reported on the last frame before
\* the closure, rounded to the pixel, whatever the reopening frame maps to.
C23_ClickAtPreClosure ==
    [][clicks' # clicks =>
         /\ ReopenStep /\ AcceptStep
         /\ preClose # Null /\ preClose.move # Null
         /\ \A i \in 1..Len(newClicks) :
               /\ newClicks[i].t = now'
               /\ roundedFrom(newClicks[i].x, preClose.move.x)
               /\ roundedFrom(newClicks[i].y, preClose.move.y)
         /\ smooth' = preClose.smooth ]_vars

\* a blink has just been accepted with the cursor off the centre of the
\* window, and the reopening frame's own candidate lies at least a pixel away
\* from where the click went
C23_Witness ==
    /\ ev.trans = "reopen" /\ ev.accepted
    /\ Len(clicks) >= 1
    /\ clicks[Len(clicks)].t = now
    /\ clicks[Len(clicks)].x # win.w \div 2
    /\ ev.cand # Null
    /\ Abs(ev.cand.x - 10 * clicks[Len(clicks)].x) >= 10

\* a frame on which the double-blink tracker goes from Closed to Open
DblReopenStep == lastVideoTs' # lastVideoTs /\ eyeClosed /\ ~eyeClosed'

\* when the last click event was dispatched; before the session if none was
lastDispatch == IF clicks = <<>> THEN Epoch ELSE clicks[Len(clicks)].t

C25_OneActivation ==
    /\ Len(handlerStack) <= 1
    /\ activations <= 1

\* C26 (positions stay in the window): in a window that is not resized, the
\* position reported by every frame, the smoothed position, every buffered
\* candidate and the candidate of the frame lie within [0, W] x [0, H],
\* before and after the calibration, and inside the freeze of a click.
C26_PositionInWindow ==
    resizes = 0 =>
        /\ inWindow(smooth, win)
        /\ lastMove # Null => inWindow(lastMove, win)
        /\ \A k \in 1..Len(posBuf) : inWindow(posBuf[k], win)
        /\ ev.cand # Null => inWindow(ev.cand, win)

\* before the calibration has ended the eyes have drifted upwards with the
\* dots of the first row: the frame's candidate would lie above the window and
\* has been clamped to its top edge, and the position reported is inside
C26_Witness ==
    /\ ev.mapping = "fallback"
    /\ ev.cand # Null /\ ev.cand.y = 0
    /\ lastMove # Null /\ lastMove.y > 0 /\ lastMove.y < Px(win.h) \div 2

\* the warm-up is over at the time of the step's frame
afterWarmUp == perfNow(now') - calibStart >= CALIBRATE_MS

\* C27 (no warm-up sample, no baseline): every face frame of the warm-up
\* leaves an EAR sample; a face frame after the warm-up leaves a baseline set
\* if there is a sample, and if there is none it leaves the baseline at 0, the
\* classifier Open and no sample; a baseline is set only where there is a
\* sample, and without a baseline no click has ever been dispatched.
C27_NoSampleNoBaseline ==
    [][ /\ (FaceStep /\ ~afterWarmUp) => Len(earSamples') = Len(earSamples) + 1
        /\ (FaceStep /\ afterWarmUp /\ earSamples # <<>>) => earBaseline' # 0
        /\ (FaceStep /\ afterWarmUp /\ earSamples = <<>>) =>
              /\ earBaseline' = 0 /\ earSamples' = <<>>
              /\ ~eyeClosed' /\ clicks' = <<>> /\ lastClickAt' = 0
        /\ earBaseline' # 0 => earSamples' # <<>>
        /\ earBaseline' = 0 => clicks' = <<>> ]_vars

\* no face was seen in the warm-up; three face frames have been processed
\* since, and there is no baseline and no click
C27_Witness ==
    /\ earSamples = <<>> /\ earBaseline = 0
    /\ perfNow(now) - calibStart >= CALIBRATE_MS
    /\ ev.kind = "open"
    /\ Len(posBuf) >= 3
    /\ clicks = <<>>

\* runCalibration() has returned or thrown
calEnded == calPc \in {"done", "threw", "returned"}

\* C30 (collecting flag): collecting is set only while runCalibration() awaits
\* the dwell timer of grid point calIndex; it is reset once the routine has
\* ended, whether it succeeded, failed, found no overlay or threw after the
\* cleanup, and from then on the sample lists do not change.
C30_CollectingOnlyInDwell ==
    [][ /\ collecting' => (calPc' = "dwell" /\ calIndex' \in 0..8)
        /\ calEnded' => ~collecting'
        /\ calEnded => (calEnded' /\ samplesForCurrent' = samplesForCurrent) ]_vars

\* the cleanup ran during the dwell of the third point: the routine threw on
\* the overlay when the dwell was over, with the flag reset and the samples of
\* that dwell in the list
C30_Witness ==
    /\ calPc = "threw" /\ abortedAt = "dwell"
    /\ calIndex = 2
    /\ ~collecting
    /\ Len(samplesForCurrent[2]) >= 2

\* init() has ended, by reaching the frame loop or by its catch
initSettled == phase \in {"loop", "failed"}

\* C29 (cleanup during init), as claimed: after the cleanup no position
\* update and no click is dispatched, and once init() has ended as well no
\* camera track is live and no landmarker is open, wherever in init() the
\* cleanup came.
C29_CleanupReleases ==
    /\ [][~running => (lastMove' = lastMove /\ clicks' = clicks)]_vars
    /\ []((~running /\ initSettled) => (~tracksLive /\ ~landmarkerOpen))

\* C28 (one session), as claimed: the two mounted trackers are never both in
\* their frame loop, and the click events that answer one blink all come from
\* one tracker.
C28_OneSession ==
    /\ peer # Null => ~(running /\ phase = "loop" /\ peer.running /\ peer.phase = "loop")
    /\ \A i, j \in 1..Len(clicks) :
           clicks[i].blink = clicks[j].blink => clicks[i].src = clicks[j].src

====
